---- MODULE Spec2Model ----
(***************************************************************************)
(* perspektiv: the threlm actor core (threlm/src/lib.rs), the subscription *)
(* worker loop (src/subscribable.rs) and the Window model (src/ui.rs) as   *)
(* wired by src/main.rs.                                                   *)
(*                                                                         *)
(* Threads: the GTK main thread ("main") and one worker thread per enabled *)
(* module.  Shared state: the Arc strong count of the Model, and the glib  *)
(* idle queue of the default main context.                                 *)
(***************************************************************************)
EXTENDS Integers, Sequences, FiniteSets, TLC

\* ---------------------------------------------------------------- bounds
\* calls of the poll closure per worker, when both modules are compiled in
MaxPolls == 2
\* calls of the poll closure when a single module is compiled in
MaxPollsSolo == 4
\* delete-events the user produces
MaxDeletes == 1
\* synchronous Threlm::update calls the owner makes before gtk::main
MaxSync == 1
\* hide timeouts that expire
MaxFires == 1
\* calls of the poll closure in the runs checked for liveness
MaxPollsFair == 2
\* calls of the poll closure by the worker that fails and by the one that
\* goes on, in the runs that check the workers' independence
MaxPollsFailing == 3
MaxPollsOther == 1
\* events the sound cards' controls produce
MaxEvents == 3
\* the master volume of a card takes the levels 0..MaxVolume
MaxVolume == 1

\* ------------------------------------------------------------- constants
\* the modules ui::Window::connect subscribes to
Modules == {"x11_backlight", "alsa_volume"}
\* the thread gtk::init ran on
Home == "main"
\* the threads code that calls Threlm::new can run on
Threads == {Home, "other"}
\* err_count >= 3 terminates the module
ErrLimit == 3

\* the messages a poll closure returns in Ok(Some(msg)); worker.hist records
\* them by kind, Ok(None) as "none" and Err(e) as "nonfatal" or "fatal"
ShowKinds == {"ShowPercent", "ShowBool"}
\* the messages each module's poll closure produces
KindsOf(w) == IF w = "x11_backlight" THEN {"ShowPercent"} ELSE ShowKinds
\* config.boolean.show_label as the runs have it that do not vary it
ShowLabel == TRUE

\* the names Backlight::new looks up, and the atoms the X server has for
\* them where it has interned them
AtomNames == {"Backlight", "BACKLIGHT"}
AtomOf == [n \in AtomNames |-> IF n = "Backlight" THEN 1 ELSE 2]
\* the X server as the runs have it that do not vary it: a RandR driver that
\* has interned both names
BothAtoms == AtomNames
\* no Backlight struct field: Backlight::new has not come to its lookup
NoAtom == -1

\* the sound cards with a master volume, in the order of the closure's Vec
NumCards == 2
Cards == 1..NumCards
\* Card.volume before the card's first message (Card::new) and after Muted
Unset == -2
Muted == -1
\* the levels get_volume returns
Volumes == 0..MaxVolume
\* a mixer nobody has touched: unmuted, level 0, no event, no error
QuietMixer ==
    [c \in Cards |-> [muted |-> FALSE, volume |-> 0, pending |-> 0,
                      failed |-> FALSE]]
\* the closure has returned nothing in this pass of its loop
NoResult == [card |-> 0, kind |-> "-", volume |-> Unset]

\* a message, with its history stamps: call numbers the tell calls in the
\* order they are made, inv is the number of idle sources attached when tell
\* was called, ret the number attached when it returned Ok (its own included)
NoMsg == [kind |-> "-", from |-> "-", n |-> 0, call |-> 0, inv |-> 0, ret |-> 0]

VARIABLES
    enabled,    \* modules compiled in (cargo features)
    pollBound,  \* bound of the model: poll calls each worker makes
    caller,     \* the thread the owner's code runs on and calls Threlm::new on
    show_label, \* config.boolean.show_label
    atoms,      \* the names of AtomNames the X server has interned
    backlight,  \* the atom Backlight::new went on with after its lookup
    mixer,      \* per sound card: the master's state, unread events, error
    cards,      \* per sound card: Card.volume of alsa_volume's closure
    emitted,    \* history: what alsa_volume's closure has returned
    events,     \* events the sound cards have produced so far
    strong,     \* Arc strong count of the UnsafeMutCell<Window>
    threlm,     \* the Threlm (_app) exists and holds one strong reference
    freedBy,    \* thread that dropped the last strong reference, or "-"
    hpc,        \* position of the main thread
    cur,        \* message the running Model::update was called with
    via,        \* how the running update was entered: "idle" or "sync"
    batch,      \* idle callbacks left to dispatch in this loop iteration
    quitFlag,   \* gtk::main_quit() has been called
    queue,      \* glib idle sources, in attach order
    worker,     \* per module: the state of its thread
    win,        \* the Window model: widgets' visibility and self.timeout
    armed,      \* glib timeout sources not yet fired or removed
    timers,     \* timeout sources created so far (the last SourceId)
    deletes,    \* delete-events so far
    syncs,      \* Threlm::update calls so far
    applied,    \* history: messages Model::update has run with, in order
    discarded,  \* history: messages whose callback found the Model gone
    borrows,    \* threads holding a &mut to the Model (borrow_mut), a stack
    fires,      \* timeout sources that have fired so far
    enq,        \* history: idle sources attached so far
    calls       \* history: tell calls so far

vars == <<enabled, pollBound, caller, show_label, atoms, backlight, mixer, cards,
          emitted, events, strong, threlm, freedBy, hpc, cur, via, batch, quitFlag,
          queue, worker, win, armed, timers, deletes, syncs, applied,
          discarded, borrows, fires, enq, calls>>

homeVars == <<hpc, cur, via, batch, quitFlag>>
winVars == <<win, armed, timers>>
histVars == <<applied, discarded, borrows>>

confVars == <<enabled, pollBound, caller, show_label, atoms>>
alsaVars == <<mixer, cards, emitted, events>>

\* ------------------------------------------------------------------ Init
InitWorker ==
    [pc |-> "unspawned", err_count |-> 0, polls |-> 0, msg |-> NoMsg,
     sent |-> 0, hist |-> <<>>, cause |-> "-", log |-> <<>>]

InitCore(mods, bound, thread, label, interned) ==
    /\ enabled = mods
    /\ pollBound = bound
    /\ caller = thread
    /\ show_label = label
    /\ atoms = interned
    /\ backlight = NoAtom
    /\ strong = 0
    /\ threlm = FALSE
    /\ freedBy = "-"
    /\ hpc = "start"
    /\ cur = NoMsg
    /\ via = "-"
    /\ batch = 0
    /\ quitFlag = FALSE
    /\ queue = <<>>
    /\ worker = [w \in Modules |-> InitWorker]
    /\ win = [visible |-> FALSE, scale |-> FALSE, label |-> FALSE, timeout |-> 0]
    /\ armed = {}
    /\ timers = 0
    /\ deletes = 0
    /\ syncs = 0
    /\ applied = <<>>
    /\ discarded = {}
    /\ borrows = <<>>
    /\ fires = 0
    /\ enq = 0
    /\ calls = 0

\* alsa_volume's poll_factory has built its cards: Card::new sets volume
\* to -2.0
InitAlsa(m) ==
    /\ mixer = m
    /\ cards = [c \in Cards |-> Unset]
    /\ emitted = <<>>
    /\ events = 0

\* the sound cards the runs have that do not look into alsa_volume's closure
InitEnv(mods, bound, thread, label, interned) ==
    InitCore(mods, bound, thread, label, interned) /\ InitAlsa(QuietMixer)

\* the X server the runs have that do not vary it
InitConf(mods, bound, thread, label) ==
    InitEnv(mods, bound, thread, label, BothAtoms)

\* the configuration the runs have that do not vary it
InitOn(mods, bound, thread) == InitConf(mods, bound, thread, ShowLabel)

\* main.rs: main calls Threlm::new, on the thread it called gtk::init on
InitPolls(mods, bound) == InitOn(mods, bound, Home)

InitWith(mods, polls) == InitPolls(mods, [w \in Modules |-> polls])

Init == InitWith(Modules, MaxPolls)

\* ------------------------------------------------- threlm: Actor::tell
\* mutant of TellAlive: tell goes on without looking at the Model
TellAliveAlways == TRUE

\* self.inner.upgrade().is_none() is false: the Model still has a strong
\* reference
TellAlive == strong > 0

\* mutant of IdleAdd: a source is only attached when none is waiting
IdleAddIfEmpty(q, m) == IF q = <<>> THEN Append(q, m) ELSE q

\* mutant of IdleAdd: the new source goes ahead of the attached ones
IdleAddFront(q, m) == <<m>> \o q

\* glib::idle_add: the new source goes behind the sources already attached
IdleAdd(q, m) == Append(q, m)

\* mutant of AfterCallback: the closure returns Continue(true) and stays
AfterCallbackContinue(q) == q

\* mutant of AfterCallback: the source is kept and goes to the back
AfterCallbackRequeue(q) == Append(Tail(q), Head(q))

\* the closure returns Continue(false): glib removes the source after its run
AfterCallback(q) == Tail(q)

\* dropping one Arc: the thread that brings the count to 0 drops the Model
DropStrong(t) ==
    /\ strong' = strong - 1
    /\ freedBy' = IF strong = 1 THEN t ELSE freedBy

\* mutant of HomeTell: the main thread's closures go ahead of the queue
HomeTellUrgent(kind, from, n) ==
    IF TellAlive
    THEN /\ queue' = <<[kind |-> kind, from |-> from, n |-> n,
                        call |-> calls + 1, inv |-> enq, ret |-> enq + 1]>>
                      \o queue
         /\ enq' = enq + 1
         /\ calls' = calls + 1
         /\ hpc' = hpc
    ELSE /\ hpc' = "panicked"
         /\ calls' = calls + 1
         /\ UNCHANGED <<queue, enq>>

\* tell on the main thread (timer and delete-event closures), with the
\* unwrap() of its result: no other main-thread code runs in between
HomeTell(kind, from, n) ==
    IF TellAlive
    THEN /\ queue' = IdleAdd(queue, [kind |-> kind, from |-> from, n |-> n,
                                     call |-> calls + 1, inv |-> enq,
                                     ret |-> enq + 1])
         /\ enq' = enq + 1
         /\ calls' = calls + 1
         /\ hpc' = hpc
    ELSE /\ hpc' = "panicked"
         /\ calls' = calls + 1
         /\ UNCHANGED <<queue, enq>>

\* ------------------------------------------------------- ui.rs: Window
\* mutant of HideTimeout: no timeout source is created
HideTimeoutUnarmed(scale, label) ==
    /\ armed' = armed \ {win.timeout}
    /\ timers' = timers + 1
    /\ win' = [visible |-> TRUE, scale |-> scale, label |-> label,
               timeout |-> timers + 1]

\* Window::hide_timeout: source_remove the stored id, arm a new timeout
HideTimeout(scale, label) ==
    /\ armed' = (armed \ {win.timeout}) \cup {timers + 1}
    /\ timers' = timers + 1
    /\ win' = [visible |-> TRUE, scale |-> scale, label |-> label,
               timeout |-> timers + 1]

\* mutant of WindowUpdate: the Show arms do not hide the container's
\* children before they show their own
WindowUpdateKeepsChildren(kind) ==
    CASE kind = "ShowPercent" ->
            /\ HideTimeout(TRUE, win.label)
            /\ UNCHANGED quitFlag
      [] kind = "ShowBool" ->
            /\ HideTimeout(win.scale, win.label \/ show_label)
            /\ UNCHANGED quitFlag
      [] kind = "Hide" ->
            /\ win' = [win EXCEPT !.timeout = 0, !.visible = FALSE]
            /\ UNCHANGED <<armed, timers, quitFlag>>
      [] kind = "Quit" ->
            /\ quitFlag' = TRUE
            /\ UNCHANGED winVars

\* Window::update: a Show arm hides the children of the container (the scale
\* and the label), shows its own widget (the label only if show_label is
\* set) and the window, and calls hide_timeout
WindowUpdate(kind) ==
    CASE kind = "ShowPercent" ->
            /\ HideTimeout(TRUE, FALSE)
            /\ UNCHANGED quitFlag
      [] kind = "ShowBool" ->
            /\ HideTimeout(FALSE, show_label)
            /\ UNCHANGED quitFlag
      [] kind = "Hide" ->
            /\ win' = [win EXCEPT !.timeout = 0, !.visible = FALSE]
            /\ UNCHANGED <<armed, timers, quitFlag>>
      [] kind = "Quit" ->
            /\ quitFlag' = TRUE
            /\ UNCHANGED winVars

\* --------------------------------------------- main thread: main.rs, glib
\* mutant of ThrelmNew: the assertion is missing
ThrelmNewUnchecked ==
    /\ hpc = "start"
    /\ hpc' = "constructed"
    /\ strong' = 1
    /\ threlm' = TRUE
    /\ worker' = [w \in Modules |->
                    IF w \in enabled THEN [worker[w] EXCEPT !.pc = "factory"]
                    ELSE worker[w]]
    /\ UNCHANGED <<confVars, alsaVars, backlight, freedBy, cur, via, batch, quitFlag, queue, winVars,
                   deletes, syncs, histVars, fires, enq, calls>>

\* mutant of ThrelmNew: new wraps the Model and leaves connect to the owner
ThrelmNewUnconnected ==
    /\ hpc = "start"
    /\ hpc' = "constructed"
    /\ strong' = 1
    /\ threlm' = TRUE
    /\ UNCHANGED <<confVars, alsaVars, backlight, freedBy, cur, via, batch, quitFlag, queue, worker,
                   winVars, deletes, syncs, histVars, fires, enq, calls>>

\* mutant of ThrelmNew: main does not bind the Threlm (`let _ =`), which is
\* dropped as soon as new has returned
ThrelmNewUnbound ==
    /\ hpc = "start"
    /\ hpc' = "constructed"
    /\ strong' = 0
    /\ freedBy' = Home
    /\ threlm' = FALSE
    /\ worker' = [w \in Modules |->
                    IF w \in enabled THEN [worker[w] EXCEPT !.pc = "factory"]
                    ELSE worker[w]]
    /\ UNCHANGED <<confVars, alsaVars, backlight, cur, via, batch, quitFlag, queue, winVars,
                   deletes, syncs, histVars, fires, enq, calls>>

\* Threlm::new: assert!(gtk::is_initialized_main_thread()), which panics on
\* any other thread; then Arc::new, then Model::connect, which spawns one
\* thread per enabled module
ThrelmNew ==
    /\ hpc = "start"
    /\ IF caller = Home
       THEN /\ hpc' = "constructed"
            /\ strong' = 1
            /\ threlm' = TRUE
            /\ worker' = [w \in Modules |->
                            IF w \in enabled
                            THEN [worker[w] EXCEPT !.pc = "factory"]
                            ELSE worker[w]]
       ELSE /\ hpc' = "panicked"
            /\ UNCHANGED <<strong, threlm, worker>>
    /\ UNCHANGED <<confVars, alsaVars, backlight, freedBy, cur, via, batch, quitFlag, queue, winVars,
                   deletes, syncs, histVars, fires, enq, calls>>

\* mutant of ThrelmUpdate: the message is sent through the idle queue
ThrelmUpdateQueued ==
    /\ hpc = "constructed"
    /\ syncs < MaxSync
    /\ syncs' = syncs + 1
    /\ queue' = IdleAdd(queue, [kind |-> "ShowPercent", from |-> "sync",
                                n |-> syncs + 1, call |-> 0, inv |-> enq,
                                ret |-> 0])
    /\ UNCHANGED <<confVars, alsaVars, backlight, strong, threlm, freedBy, homeVars, worker, winVars,
                   deletes, histVars, fires, enq, calls>>

\* Threlm::update: borrow_mut and Model::update on the caller's thread, the
\* owner's, with no upgrade and no idle source; the stamp inv records how
\* many idle sources had been attached when it was called
ThrelmUpdate ==
    /\ hpc = "constructed"
    /\ syncs < MaxSync
    /\ syncs' = syncs + 1
    /\ cur' = [kind |-> "ShowPercent", from |-> "sync", n |-> syncs + 1,
               call |-> 0, inv |-> enq, ret |-> 0]
    /\ via' = "sync"
    /\ hpc' = "update"
    /\ borrows' = Append(borrows, Home)
    /\ UNCHANGED <<confVars, alsaVars, backlight, strong, threlm, freedBy, batch, quitFlag, queue,
                   worker, winVars, deletes, applied, discarded, fires, enq, calls>>

\* gtk::main()
GtkMain ==
    /\ hpc = "constructed"
    /\ hpc' = "loop"
    /\ UNCHANGED <<confVars, alsaVars, backlight, strong, threlm, freedBy, cur, via, batch, quitFlag,
                   queue, worker, winVars, deletes, syncs, histVars, fires, enq, calls>>

\* one iteration of the main loop finds the idle sources attached so far
\* ready and will dispatch them all
Iterate ==
    /\ hpc = "loop"
    /\ batch = 0
    /\ ~quitFlag
    /\ queue # <<>>
    /\ batch' = Len(queue)
    /\ UNCHANGED <<confVars, alsaVars, backlight, strong, threlm, freedBy, hpc, cur, via, quitFlag,
                   queue, worker, winVars, deletes, syncs, histVars, fires, enq, calls>>

\* mutant of DispatchReady: a running update lets the loop iterate
DispatchReadyNested == hpc \in {"loop", "update"} /\ batch > 0

\* an idle closure is run by the main loop, between two callbacks
DispatchReady == hpc = "loop" /\ batch > 0

\* the idle closure of Actor::tell: upgrade, and with a Model borrow_mut and
\* enter Model::update
IdleDispatch ==
    /\ DispatchReady
    /\ batch' = batch - 1
    /\ queue' = AfterCallback(queue)
    /\ IF strong > 0
       THEN /\ strong' = strong + 1
            /\ cur' = Head(queue)
            /\ via' = "idle"
            /\ hpc' = "update"
            /\ borrows' = Append(borrows, Home)
            /\ UNCHANGED discarded
       ELSE /\ discarded' = discarded \cup {Head(queue)}
            /\ UNCHANGED <<strong, cur, via, hpc, borrows>>
    /\ UNCHANGED <<confVars, alsaVars, backlight, threlm, freedBy, quitFlag, worker, winVars,
                   deletes, syncs, applied, fires, enq, calls>>

\* Model::update runs to its end and returns; the idle closure then drops
\* its upgraded Arc
UpdateEnd ==
    /\ hpc = "update"
    /\ WindowUpdate(cur.kind)
    /\ applied' = Append(applied, cur)
    /\ borrows' = SubSeq(borrows, 1, Len(borrows) - 1)
    /\ cur' = NoMsg
    /\ via' = "-"
    /\ IF via = "idle"
       THEN /\ DropStrong(Home)
            /\ hpc' = "loop"
       ELSE /\ hpc' = "constructed"
            /\ UNCHANGED <<strong, freedBy>>
    /\ UNCHANGED <<confVars, alsaVars, backlight, threlm, batch, queue, worker, deletes, syncs,
                   discarded, fires, enq, calls>>

\* the timeout closure of hide_timeout: actor.tell(Hide).unwrap(); it returns
\* Continue(false), which removes the source
TimerFire(id) ==
    /\ hpc = "loop"
    /\ batch = 0
    /\ ~quitFlag
    /\ id \in armed
    /\ fires < MaxFires
    /\ fires' = fires + 1
    /\ armed' = armed \ {id}
    /\ HomeTell("Hide", "timer", id)
    /\ UNCHANGED <<confVars, alsaVars, backlight, strong, threlm, freedBy, cur, via, batch, quitFlag,
                   worker, win, timers, deletes, syncs, histVars>>

\* the delete-event closure of connect: actor.tell(Quit).unwrap()
DeleteEvent ==
    /\ hpc = "loop"
    /\ batch = 0
    /\ ~quitFlag
    /\ deletes < MaxDeletes
    /\ deletes' = deletes + 1
    /\ HomeTell("Quit", "delete", deletes + 1)
    /\ UNCHANGED <<confVars, alsaVars, backlight, strong, threlm, freedBy, cur, via, batch, quitFlag,
                   worker, winVars, syncs, histVars, fires>>

\* gtk::main returns after main_quit, and main drops _app
MainReturn ==
    /\ hpc = "loop"
    /\ batch = 0
    /\ quitFlag
    /\ hpc' = "exited"
    /\ threlm' = FALSE
    /\ DropStrong(Home)
    /\ UNCHANGED <<confVars, alsaVars, backlight, cur, via, batch, quitFlag, queue, worker, winVars,
                   deletes, syncs, histVars, fires, enq, calls>>

\* the owner drops the Threlm, and with it the Arc it holds, on the main
\* thread outside any update: before gtk::main or in a callback of the loop
ThrelmDrop ==
    /\ hpc \in {"constructed", "loop"}
    /\ threlm
    /\ threlm' = FALSE
    /\ DropStrong(Home)
    /\ UNCHANGED <<confVars, alsaVars, backlight, homeVars, queue, worker, winVars, deletes, syncs,
                   histVars, fires, enq, calls>>

\* ------------------------------------- worker thread: Subscribable::subscribe
\* Ok(Some(msg)) arm: err_count = 0
ErrCountAfterMsg(c) == 0

\* Ok(None) arm: continue
ErrCountAfterNone(c) == c

\* mutant of ErrCountAfterErr: an error counts twice
ErrCountAfterErrDouble(c) == c + 2

\* Err arm, e.fatal false: err_count += 1
ErrCountAfterErr(c) == c + 1

\* mutant of Escalates: the comparison is off by one
EscalatesLate(c) == c > ErrLimit

\* Err arm, e.fatal false: if err_count >= 3 { terminate = true }
Escalates(c) == c >= ErrLimit

\* one call of the error! macro by the thread: an entry of level error
ErrorEntry(text) == [level |-> "error", text |-> text]

Polled(w, r) == [worker[w] EXCEPT !.polls = @ + 1, !.hist = Append(@, r)]

\* mutant of CanPoll: the returns are missing and the loop goes on
CanPollAfterEnd(w) ==
    worker[w].pc \in {"poll", "terminated"} /\ worker[w].polls < pollBound[w]

\* the thread is at the head of its loop, about to call f()
CanPoll(w) == worker[w].pc = "poll" /\ worker[w].polls < pollBound[w]

\* XInternAtom(display, name, only_if_exists = true): the atom of the name,
\* or None (0) when the server has not interned it
XInternAtom(name) == IF name \in atoms THEN AtomOf[name] ELSE 0

\* the lookup of Backlight::new: the atom of `Backlight`; if that is not 0,
\* the atom of `BACKLIGHT`, and the "no property" error if this one is 0
BacklightNew ==
    LET first == XInternAtom("Backlight")
        second == XInternAtom("BACKLIGHT")
    IN  IF first # 0
        THEN [err |-> second = 0, atom |-> second]
        ELSE [err |-> FALSE, atom |-> first]

\* x11_backlight's poll_factory gets through Backlight::new if the lookup
\* gives no error; the other modules have no lookup
LookupPasses(w) == w = "x11_backlight" => ~BacklightNew.err

\* the messages poll_factory can return as Err: the lookup's ("no property")
\* when the lookup is reached, and it fails; any other call's ("factory")
\* when that call fails (ok is false), before the lookup or after it
FactoryErrors(w, ok) ==
    IF LookupPasses(w) THEN {"factory"}
    ELSE IF ok THEN {"no property"}
    ELSE {"factory", "no property"}

\* what the factory makes of the atom: with every other call succeeding
\* (ok) it goes on with the atom of the lookup; with another call failing
\* it has failed before the lookup or gone on with its atom and failed later
BacklightStep(w, ok) ==
    IF w = "x11_backlight" /\ ~BacklightNew.err
    THEN IF ok THEN backlight' = BacklightNew.atom
         ELSE backlight' \in {backlight, BacklightNew.atom}
    ELSE backlight' = backlight

\* mutant of Factory: after logging the failure the thread enters the loop
FactoryFailsIntoLoop(w, ok) ==
    /\ worker[w].pc = "factory"
    /\ \E text \in FactoryErrors(w, ok) :
          worker' = [worker EXCEPT ![w] =
                        IF ok /\ LookupPasses(w) THEN [@ EXCEPT !.pc = "poll"]
                        ELSE [@ EXCEPT !.pc = "poll", !.cause = "factory",
                                       !.log = Append(@, ErrorEntry(text))]]
    /\ BacklightStep(w, ok)
    /\ UNCHANGED <<confVars, alsaVars, strong, threlm, freedBy, homeVars, queue, winVars,
                   deletes, syncs, histVars, fires, enq, calls>>

\* Self::poll_factory(params): Ok(f) enters the loop, Err(msg) logs and returns
Factory(w, ok) ==
    /\ worker[w].pc = "factory"
    /\ \E text \in FactoryErrors(w, ok) :
          worker' = [worker EXCEPT ![w] =
                        IF ok /\ LookupPasses(w) THEN [@ EXCEPT !.pc = "poll"]
                        ELSE [@ EXCEPT !.pc = "terminated", !.cause = "factory",
                                       !.log = Append(@, ErrorEntry(text))]]
    /\ BacklightStep(w, ok)
    /\ UNCHANGED <<confVars, alsaVars, strong, threlm, freedBy, homeVars, queue, winVars,
                   deletes, syncs, histVars, fires, enq, calls>>

\* f() returns Ok(None)
PollNone(w) ==
    /\ CanPoll(w)
    /\ worker' = [worker EXCEPT ![w] =
                    [Polled(w, "none") EXCEPT
                        !.err_count = ErrCountAfterNone(@)]]
    /\ UNCHANGED <<confVars, alsaVars, backlight, strong, threlm, freedBy, homeVars, queue, winVars,
                   deletes, syncs, histVars, fires, enq, calls>>

\* mutant of PollNonFatal: err_count is one counter shared by the workers
PollNonFatalShared(w) ==
    /\ CanPoll(w)
    /\ LET c == ErrCountAfterErr(worker[w].err_count)
       IN  worker' = [v \in Modules |->
                        IF v # w
                        THEN [worker[v] EXCEPT !.err_count = @ + 1]
                        ELSE IF Escalates(c)
                        THEN [Polled(w, "nonfatal") EXCEPT
                                !.err_count = c, !.pc = "terminated",
                                !.cause = "strikes",
                                !.log = Append(@, ErrorEntry("third"))]
                        ELSE [Polled(w, "nonfatal") EXCEPT
                                !.err_count = c,
                                !.log = Append(@, ErrorEntry("continue"))]]
    /\ UNCHANGED <<confVars, alsaVars, backlight, strong, threlm, freedBy, homeVars, queue, winVars,
                   deletes, syncs, histVars, fires, enq, calls>>

\* mutant of PollNonFatal: only the error that terminates is logged
PollNonFatalUnlogged(w) ==
    /\ CanPoll(w)
    /\ LET c == ErrCountAfterErr(worker[w].err_count)
       IN  worker' = [worker EXCEPT ![w] =
                        IF Escalates(c)
                        THEN [Polled(w, "nonfatal") EXCEPT
                                !.err_count = c, !.pc = "terminated",
                                !.cause = "strikes",
                                !.log = Append(@, ErrorEntry("third"))]
                        ELSE [Polled(w, "nonfatal") EXCEPT !.err_count = c]]
    /\ UNCHANGED <<confVars, alsaVars, backlight, strong, threlm, freedBy, homeVars, queue, winVars,
                   deletes, syncs, histVars, fires, enq, calls>>

\* f() returns Err(e), e.fatal false
PollNonFatal(w) ==
    /\ CanPoll(w)
    /\ LET c == ErrCountAfterErr(worker[w].err_count)
       IN  worker' = [worker EXCEPT ![w] =
                        IF Escalates(c)
                        THEN [Polled(w, "nonfatal") EXCEPT
                                !.err_count = c, !.pc = "terminated",
                                !.cause = "strikes",
                                !.log = Append(@, ErrorEntry("third"))]
                        ELSE [Polled(w, "nonfatal") EXCEPT
                                !.err_count = c,
                                !.log = Append(@, ErrorEntry("continue"))]]
    /\ UNCHANGED <<confVars, alsaVars, backlight, strong, threlm, freedBy, homeVars, queue, winVars,
                   deletes, syncs, histVars, fires, enq, calls>>

\* mutant of PollFatal: a fatal error is counted like a non-fatal one
PollFatalCounted(w) ==
    /\ CanPoll(w)
    /\ LET c == ErrCountAfterErr(worker[w].err_count)
       IN  worker' = [worker EXCEPT ![w] =
                        IF Escalates(c)
                        THEN [Polled(w, "fatal") EXCEPT
                                !.err_count = c, !.pc = "terminated",
                                !.cause = "fatal",
                                !.log = Append(@, ErrorEntry("fatal"))]
                        ELSE [Polled(w, "fatal") EXCEPT
                                !.err_count = c,
                                !.log = Append(@, ErrorEntry("fatal"))]]
    /\ UNCHANGED <<confVars, alsaVars, backlight, strong, threlm, freedBy, homeVars, queue, winVars,
                   deletes, syncs, histVars, fires, enq, calls>>

\* f() returns Err(e), e.fatal true
PollFatal(w) ==
    /\ CanPoll(w)
    /\ worker' = [worker EXCEPT ![w] =
                    [Polled(w, "fatal") EXCEPT
                        !.pc = "terminated", !.cause = "fatal",
                        !.log = Append(@, ErrorEntry("fatal"))]]
    /\ UNCHANGED <<confVars, alsaVars, backlight, strong, threlm, freedBy, homeVars, queue, winVars,
                   deletes, syncs, histVars, fires, enq, calls>>

\* mutant of TellDead: the early return is missing and the closure is attached
TellDeadAttaches(w, m) ==
    /\ worker' = [worker EXCEPT ![w] =
                    [Polled(w, m.kind) EXCEPT
                        !.err_count = 0, !.sent = @ + 1,
                        !.pc = "terminated", !.cause = "dead",
                        !.log = Append(@, ErrorEntry("dropped"))]]
    /\ queue' = Append(queue, m)
    /\ UNCHANGED strong

\* mutant of TellDead: the worker ignores the result of tell and loops on
TellDeadRetries(w, m) ==
    /\ worker' = [worker EXCEPT ![w] =
                    [Polled(w, m.kind) EXCEPT
                        !.err_count = 0, !.sent = @ + 1, !.cause = "dead",
                        !.log = Append(@, ErrorEntry("dropped"))]]
    /\ UNCHANGED <<strong, queue>>

\* mutant of TellDead: subscribe returns without logging
TellDeadQuiet(w, m) ==
    /\ worker' = [worker EXCEPT ![w] =
                    [Polled(w, m.kind) EXCEPT
                        !.err_count = 0, !.sent = @ + 1,
                        !.pc = "terminated", !.cause = "dead"]]
    /\ UNCHANGED <<strong, queue>>

\* tell finds the Model gone: Err, nothing else; subscribe logs with error!
\* and returns
TellDead(w, m) ==
    /\ worker' = [worker EXCEPT ![w] =
                    [Polled(w, m.kind) EXCEPT
                        !.err_count = ErrCountAfterMsg(@), !.sent = @ + 1,
                        !.pc = "terminated", !.cause = "dead",
                        !.log = Append(@, ErrorEntry("dropped"))]]
    /\ UNCHANGED <<strong, queue>>

\* mutant of TellUpgraded: tell is given a message other than the polled one
TellUpgradedOther(w, m) ==
    /\ worker' = [worker EXCEPT ![w] =
                    [Polled(w, m.kind) EXCEPT
                        !.err_count = 0, !.sent = @ + 1, !.pc = "enqueue",
                        !.msg = [m EXCEPT !.kind = "ShowPercent"]]]
    /\ strong' = strong + 1
    /\ UNCHANGED queue

\* tell's upgrade() gave Some: the thread holds a temporary Arc
TellUpgraded(w, m) ==
    /\ worker' = [worker EXCEPT ![w] =
                    [Polled(w, m.kind) EXCEPT
                        !.err_count = ErrCountAfterMsg(@), !.sent = @ + 1,
                        !.pc = "enqueue", !.msg = m]]
    /\ strong' = strong + 1
    /\ UNCHANGED queue

\* f() returns Ok(Some(msg)): err_count = 0 and actor.tell(msg) up to its
\* upgrade()
PollMsg(w, kind) ==
    /\ CanPoll(w)
    /\ kind \in KindsOf(w)
    /\ calls' = calls + 1
    /\ LET m == [kind |-> kind, from |-> w, n |-> worker[w].sent + 1,
                 call |-> calls + 1, inv |-> enq, ret |-> 0]
       IN  IF TellAlive THEN TellUpgraded(w, m) ELSE TellDead(w, m)
    /\ UNCHANGED <<confVars, alsaVars, backlight, threlm, freedBy, homeVars, winVars, deletes, syncs,
                   histVars, fires, enq>>

\* mutant of CanAttach: tell waits until the main loop has drained the queue
CanAttachWhenDrained(w) == worker[w].pc = "enqueue" /\ queue = <<>>

\* tell goes on after its check without waiting for anything
CanAttach(w) == worker[w].pc = "enqueue"

\* the rest of tell: the temporary Arc of the check is dropped, the closure
\* is attached with glib::idle_add, Ok(()) is returned and the loop goes on
TellEnqueue(w) ==
    /\ CanAttach(w)
    /\ DropStrong(w)
    /\ queue' = IdleAdd(queue, [worker[w].msg EXCEPT !.ret = enq + 1])
    /\ enq' = enq + 1
    /\ worker' = [worker EXCEPT ![w] = [@ EXCEPT !.pc = "poll", !.msg = NoMsg]]
    /\ UNCHANGED <<confVars, alsaVars, backlight, threlm, homeVars, winVars, deletes, syncs,
                   histVars, fires, calls>>

\* ------------------------------------- alsa_volume.rs: the poll closure
\* every variable the closure of alsa_volume and the sound cards leave alone
coreVars ==
    <<confVars, backlight, strong, threlm, freedBy, homeVars, queue, worker,
      winVars, deletes, syncs, histVars, fires, enq, calls>>

\* the results at the end of emitted that are errors
RECURSIVE TrailingErrs(_)
TrailingErrs(h) ==
    IF h = <<>> \/ h[Len(h)].kind # "Err" THEN 0
    ELSE 1 + TrailingErrs(SubSeq(h, 1, Len(h) - 1))

\* a control of card c produces an event: the master has been set to a mute
\* switch and a volume, which may be the ones it had (the event of another
\* element, or of a write of the same value)
MixerEvent(c, muted, volume) ==
    /\ events < MaxEvents
    /\ events' = events + 1
    /\ mixer' = [mixer EXCEPT ![c] = [@ EXCEPT !.muted = muted,
                                               !.volume = volume,
                                               !.pending = @ + 1]]
    /\ UNCHANGED <<coreVars, cards, emitted>>

\* the control of card c goes away: its descriptor reports an error
CardFails(c) ==
    /\ ~mixer[c].failed
    /\ mixer' = [mixer EXCEPT ![c] = [@ EXCEPT !.failed = TRUE]]
    /\ UNCHANGED <<coreVars, cards, emitted, events>>

\* card.volume != -1.0
MuteChanged(stored) == stored # Muted

\* mutant of VolumeChanged: the volume is returned for every event
VolumeChangedAlways(stored, volume) == TRUE

\* volume != card.volume
VolumeChanged(stored, volume) == volume # stored

\* one pass of `for card in &mut cards`, from card c on, with the Card
\* structs st and the mixers mx: a card without revents is skipped; flags
\* other than POLLIN return Err; with POLLIN one event is read, the master's
\* mute and volume are read, and a change returns its message
RECURSIVE ForCards(_, _, _)
ForCards(c, st, mx) ==
    IF c > NumCards THEN [cards |-> st, mixer |-> mx, out |-> NoResult]
    ELSE IF mx[c].failed
    THEN [cards |-> st, mixer |-> mx,
          out |-> [card |-> c, kind |-> "Err", volume |-> st[c]]]
    ELSE IF mx[c].pending = 0 THEN ForCards(c + 1, st, mx)
    ELSE LET read == [mx EXCEPT ![c] = [@ EXCEPT !.pending = @ - 1]]
             muted == mx[c].muted
             volume == mx[c].volume
         IN  IF muted /\ MuteChanged(st[c])
             THEN [cards |-> [st EXCEPT ![c] = Muted], mixer |-> read,
                   out |-> [card |-> c, kind |-> "ShowBool", volume |-> Muted]]
             ELSE IF ~muted /\ VolumeChanged(st[c], volume)
             THEN [cards |-> [st EXCEPT ![c] = volume], mixer |-> read,
                   out |-> [card |-> c, kind |-> "ShowPercent",
                            volume |-> volume]]
             ELSE ForCards(c + 1, st, read)

\* the closure of alsa_volume's poll_factory: poll() returns with an event or
\* an error on some card, and one pass over the cards follows, which either
\* returns a result to subscribe or ends, and the closure polls again.
\* subscribe calls the closure again unless three calls in a row gave Err
AlsaPoll ==
    /\ \E c \in Cards : mixer[c].pending > 0 \/ mixer[c].failed
    /\ TrailingErrs(emitted) < ErrLimit
    /\ LET r == ForCards(1, cards, mixer)
       IN  /\ cards' = r.cards
           /\ mixer' = r.mixer
           /\ emitted' = IF r.out = NoResult THEN emitted
                          ELSE Append(emitted, r.out)
    /\ UNCHANGED <<coreVars, events>>

WorkerStep(w) ==
    \/ \E ok \in BOOLEAN : Factory(w, ok)
    \/ PollNone(w)
    \/ PollNonFatal(w)
    \/ PollFatal(w)
    \/ \E kind \in ShowKinds : PollMsg(w, kind)
    \/ TellEnqueue(w)

\* the application as main.rs wires it: Threlm::update is never called
HomeStep ==
    \/ ThrelmNew
    \/ GtkMain
    \/ Iterate
    \/ IdleDispatch
    \/ UpdateEnd
    \/ \E id \in armed : TimerFire(id)
    \/ DeleteEvent
    \/ MainReturn

Next == HomeStep \/ \E w \in Modules : WorkerStep(w)

Spec == Init /\ [][Next]_vars

\* the library used by an owner that also calls Threlm::update, with a
\* single module compiled in
InitLib == InitWith({"alsa_volume"}, MaxPolls)

NextLib == Next \/ ThrelmUpdate

SpecLib == InitLib /\ [][NextLib]_vars

\* the main loop keeps running: gtk::main is entered, and a loop that has
\* sources to dispatch dispatches them and lets their closures return
MainLoop == GtkMain \/ Iterate \/ IdleDispatch \/ UpdateEnd

\* a single module compiled in, under a main loop that keeps running
InitFair == InitWith({"alsa_volume"}, MaxPollsFair)

FairSpec == InitFair /\ [][Next]_vars /\ WF_vars(ThrelmNew) /\ WF_vars(MainLoop)

\* a timeout source whose time has come is dispatched
TimerFires == \E id \in armed : TimerFire(id)

\* the main loop keeps running and time goes on: every armed timeout expires
\* and the loop dispatches it
FairTimerSpec ==
    InitFair /\ [][Next]_vars /\ WF_vars(ThrelmNew) /\ WF_vars(MainLoop)
             /\ WF_vars(TimerFires)

\* a single module compiled in and a hide duration (config.window.duration)
\* longer than the run: no timeout expires
InitSolo == InitWith({"alsa_volume"}, MaxPollsSolo)

NextSolo ==
    \/ ThrelmNew
    \/ GtkMain
    \/ Iterate
    \/ IdleDispatch
    \/ UpdateEnd
    \/ DeleteEvent
    \/ MainReturn
    \/ \E w \in Modules : WorkerStep(w)

SpecSolo == InitSolo /\ [][NextSolo]_vars

\* the library under an owner whose code runs on any one thread
InitAnyThread == \E t \in Threads : InitOn({"alsa_volume"}, [w \in Modules |-> MaxPolls], t)

SpecAnyThread == InitAnyThread /\ [][Next]_vars

\* the application under either setting of boolean.show_label, with the
\* module compiled in whose messages are of both kinds
InitAnyLabel ==
    \E label \in BOOLEAN :
        InitConf({"alsa_volume"}, [w \in Modules |-> MaxPolls], Home, label)

SpecAnyLabel == InitAnyLabel /\ [][Next]_vars

\* x11_backlight compiled in, under an X server that has interned any of
\* the two names
InitAnyAtoms ==
    \E interned \in SUBSET AtomNames :
        InitEnv({"x11_backlight"}, [w \in Modules |-> MaxPolls], Home,
                ShowLabel, interned)

SpecAnyAtoms == InitAnyAtoms /\ [][Next]_vars

\* the closure of alsa_volume over sound cards in any state, whose controls
\* produce events and fail
InitAnyMixer ==
    /\ InitCore({"alsa_volume"}, [w \in Modules |-> MaxPolls], Home, ShowLabel,
                BothAtoms)
    /\ \E m \in [Cards -> [muted : BOOLEAN, volume : Volumes, pending : {0},
                            failed : {FALSE}]] : InitAlsa(m)

NextAlsa ==
    \/ \E c \in Cards, muted \in BOOLEAN, volume \in Volumes :
            MixerEvent(c, muted, volume)
    \/ \E c \in Cards : CardFails(c)
    \/ AlsaPoll

SpecAlsa == InitAnyMixer /\ [][NextAlsa]_vars

\* the library under an owner that drops the Threlm while the main loop
\* goes on running, with a single module compiled in
NextDrop ==
    \/ ThrelmNew
    \/ GtkMain
    \/ Iterate
    \/ IdleDispatch
    \/ UpdateEnd
    \/ \E id \in armed : TimerFire(id)
    \/ DeleteEvent
    \/ ThrelmDrop
    \/ \E w \in Modules : WorkerStep(w)

SpecDrop == InitLib /\ [][NextDrop]_vars

\* both modules compiled in, of which x11_backlight runs into errors, a hide
\* duration longer than the run and a user who leaves the window alone
InitPair ==
    InitPolls(Modules, [w \in Modules |->
                          IF w = "x11_backlight" THEN MaxPollsFailing
                          ELSE MaxPollsOther])

NextPair ==
    \/ ThrelmNew
    \/ GtkMain
    \/ Iterate
    \/ IdleDispatch
    \/ UpdateEnd
    \/ \E w \in Modules : WorkerStep(w)

SpecPair == InitPair /\ [][NextPair]_vars

\* ------------------------------------------------------------ histories
Range(q) == {q[i] : i \in DOMAIN q}

\* the message of the update in progress, when it came through the queue
InFlight == IF hpc = "update" /\ via = "idle" THEN {cur} ELSE {}

\* the places of applied that hold a message passed to tell
ToldPlaces == {i \in DOMAIN applied : applied[i].from # "sync"}

\* how often the message attached as the r-th idle source occurs
Occurrences(r) ==
    Cardinality({i \in DOMAIN queue : queue[i].ret = r})
    + Cardinality({i \in DOMAIN applied : applied[i].ret = r})
    + Cardinality({m \in InFlight : m.ret = r})
    + Cardinality({m \in discarded : m.ret = r})

\* ----------------------------------------------------------------- C1
\* C1: the messages of one worker are applied in the order the worker passed
\* them to tell: in applied, the n-th message of a worker comes before its
\* (n+1)-th, whatever other workers and main-thread callbacks put in between.
PerWorkerFifo ==
    \A w \in Modules :
        \A i, j \in DOMAIN applied :
            (applied[i].from = w /\ applied[j].from = w /\ applied[i].n < applied[j].n)
                => i < j

\* two messages of one worker applied, with another origin's message between
PerWorkerFifoWitness ==
    \E i, j, k \in DOMAIN applied :
        /\ i < j /\ j < k
        /\ applied[i].from \in Modules
        /\ applied[k].from = applied[i].from
        /\ applied[j].from # applied[i].from

\* ----------------------------------------------------------------- C2
\* C2 as claimed: of two tell calls that return Ok, the one invoked first is
\* applied first, also when the calls are made on different threads.
FifoByInvocation ==
    \A i, j \in ToldPlaces :
        applied[i].call < applied[j].call => i < j

\* C2, amended: if tell(m1) has returned Ok before tell(m2) is invoked, then
\* whenever update has run with m2 it has run with m1 before.
FifoByReturn ==
    \A j \in ToldPlaces :
        \A m \in Range(queue) \cup InFlight \cup discarded \cup
                 {applied[i] : i \in ToldPlaces} :
            m.ret <= applied[j].inv
                => \E i \in ToldPlaces : i < j /\ applied[i] = m

\* two tells of different threads, the second invoked after the first had
\* returned, both applied
FifoByReturnWitness ==
    \E i, j \in ToldPlaces :
        /\ applied[i].from # applied[j].from
        /\ applied[i].from \in Modules
        /\ applied[j].from \in Modules
        /\ applied[i].ret <= applied[j].inv

\* ----------------------------------------------------------------- C3
\* C3: a message for which tell returned Ok is in exactly one place: once in
\* the idle queue, or once with update (running or done), or discarded; it is
\* discarded only by a callback that found the Model gone.
ExactlyOnce ==
    /\ \A r \in 1..enq : Occurrences(r) = 1
    /\ discarded # {} => strong = 0

\* three tells returned Ok, of which one is applied, one is with the running
\* update and one still queued
ExactlyOnceWitness ==
    /\ enq >= 3
    /\ \E i \in DOMAIN applied : applied[i].ret > 0
    /\ InFlight # {}
    /\ queue # <<>>

\* ----------------------------------------------------------------- C4
\* idle sources a run of FairSpec can attach
EnqBound == MaxPollsFair + MaxFires + MaxDeletes

\* update has been invoked with the message attached as the r-th idle source
Invoked(r) ==
    \/ \E m \in InFlight : m.ret = r
    \/ \E i \in DOMAIN applied : applied[i].ret = r

\* C4: once tell has returned Ok for a message, update is eventually invoked
\* with it, unless gtk::main_quit() stops the loop or the Model is dropped.
EventualDelivery ==
    \A r \in 1..EnqBound :
        (enq >= r) ~> (Invoked(r) \/ quitFlag \/ strong = 0)

\* two messages of the worker and the Hide of a timeout have been applied and
\* the loop has not been told to quit
EventualDeliveryWitness ==
    /\ ~quitFlag
    /\ \E i \in DOMAIN applied : applied[i].from = "timer"
    /\ \E i \in DOMAIN applied : applied[i].from \in Modules /\ applied[i].n = 2

\* ----------------------------------------------------------------- C5
\* C5: at most one Model::update is in progress: at most one &mut to the
\* Model exists, and it exists only while the main thread is inside update,
\* whether update was entered from the idle queue or through Threlm::update.
SerialUpdate ==
    /\ Len(borrows) <= 1
    /\ borrows # <<>> => hpc = "update"

\* a Threlm::update is in progress while a message of tell waits in the queue
\* and a worker is inside tell
SerialUpdateWitness ==
    /\ hpc = "update"
    /\ via = "sync"
    /\ queue # <<>>
    /\ \E w \in Modules : worker[w].pc = "enqueue"

\* ----------------------------------------------------------------- C6
\* C6: every &mut to the Model is held by the main thread, and no worker
\* thread touches the Model's state: none runs update and none drops the
\* Model.
HomeConfinement ==
    /\ \A i \in DOMAIN borrows : borrows[i] = Home
    /\ freedBy \in {"-", Home}

\* ----------------------------------------------------------------- C7
\* C7: a tell called when the Model is gone returns the Dead error (the
\* calling worker terminates with that cause), attaches no idle source and
\* changes nothing else.
DeadTell ==
    [][(calls' # calls /\ strong = 0) =>
          /\ \E w \in Modules :
                /\ worker[w].pc = "poll"
                /\ worker'[w].pc = "terminated"
                /\ worker'[w].cause = "dead"
                /\ \A v \in Modules \ {w} : worker'[v] = worker[v]
          /\ UNCHANGED <<queue, enq, strong, threlm, freedBy, homeVars,
                         winVars, histVars>>]_vars

\* a worker has terminated on a Dead tell while messages were still queued
DeadTellWitness ==
    /\ \E w \in Modules : worker[w].cause = "dead"
    /\ queue # <<>>

Last(h) == h[Len(h)]

\* k non-fatal errors
ErrRun(k) == [i \in 1..k |-> "nonfatal"]

\* the first message worker w passed to tell has been attached to the queue
FirstAttached(w, kind) ==
    \E m \in Range(queue) \cup InFlight \cup Range(applied) :
        m.from = w /\ m.n = 1 /\ m.kind = kind

\* the poll closure of w has returned k non-fatal errors and nothing else
OnlyErrors(w, k) == worker[w].hist = ErrRun(k)

\* the poll closure of w has returned k non-fatal errors and then a message
ErrorsThenMsg(w, k) ==
    /\ Len(worker[w].hist) = k + 1
    /\ SubSeq(worker[w].hist, 1, k) = ErrRun(k)
    /\ worker[w].hist[k + 1] \in ShowKinds

\* w is alive and its first message has gone through tell, or is going
AliveAndTold(w) ==
    /\ worker[w].pc \in {"enqueue", "poll"}
    /\ worker[w].sent = 1
    /\ worker[w].err_count = 0
    /\ \/ worker[w].pc = "enqueue" /\ worker[w].msg.kind = Last(worker[w].hist)
       \/ FirstAttached(w, Last(worker[w].hist))

\* w stopped on the Dead error of its first tell, which attached nothing
DeadOnFirstTell(w) ==
    /\ worker[w].pc = "terminated"
    /\ worker[w].cause = "dead"
    /\ worker[w].sent = 1
    /\ strong = 0
    /\ \A m \in Range(queue) \cup InFlight \cup Range(applied) : m.from # w

\* what C9 says of k < 3 errors alone and of three errors
StrikesAlone(w) ==
    /\ \A k \in 1..(ErrLimit - 1) :
          OnlyErrors(w, k)
              => /\ worker[w].pc = "poll"
                 /\ worker[w].sent = 0
                 /\ worker[w].err_count = k
    /\ (Len(worker[w].hist) >= ErrLimit
            /\ SubSeq(worker[w].hist, 1, ErrLimit) = ErrRun(ErrLimit))
          => /\ Len(worker[w].hist) = ErrLimit
             /\ worker[w].pc = "terminated"
             /\ worker[w].cause = "strikes"
             /\ worker[w].sent = 0

\* C9 as claimed: a worker whose poll closure returns k non-fatal errors and
\* then Ok(Some(msg)) stays alive and delivers msg when k < 3; with three
\* errors it is terminated, has polled three times and never again, and has
\* passed nothing to tell.
ThreeStrikesAlways ==
    \A w \in enabled :
        /\ StrikesAlone(w)
        /\ \A k \in 0..Len(worker[w].hist) :
              ErrorsThenMsg(w, k) => k < ErrLimit /\ AliveAndTold(w)

\* C9, amended: as claimed, except that after k < 3 errors and Ok(Some(msg))
\* the worker stays alive only if tell returns Ok; when the Model is gone,
\* tell returns Dead and the worker terminates with nothing attached.
ThreeStrikes ==
    \A w \in enabled :
        /\ StrikesAlone(w)
        /\ \A k \in 0..Len(worker[w].hist) :
              ErrorsThenMsg(w, k)
                  => k < ErrLimit /\ (AliveAndTold(w) \/ DeadOnFirstTell(w))

\* two non-fatal errors, then a message, which update has run with
ThreeStrikesWitness ==
    \E w \in enabled :
        /\ worker[w].hist = <<"nonfatal", "nonfatal", "ShowBool">>
        /\ \E i \in DOMAIN applied : applied[i].from = w

\* ---------------------------------------------------------------- C10
\* C10: after any Ok return of the poll closure the worker's err_count is 0,
\* so a worker terminates on its third error only when its last three polls
\* all returned a non-fatal error.
CounterReset ==
    \A w \in enabled :
        LET h == worker[w].hist
            k == Len(h)
        IN  /\ (k >= 1 /\ h[k] \in ShowKinds \cup {"none"})
                    => worker[w].err_count = 0
            /\ worker[w].cause = "strikes"
                    => k >= ErrLimit /\ SubSeq(h, k - ErrLimit + 1, k) = ErrRun(ErrLimit)

\* ---------------------------------------------------------------- C11
\* the messages of w for which tell returned Ok, wherever they are now
Attached(w) ==
    {m \in Range(queue) \cup InFlight \cup Range(applied) \cup discarded :
        m.from = w}

\* C11: the step in which the poll closure of w returns a fatal error ends w
\* whatever its err_count is, leaves the counter, the queue and everything
\* outside w as they were, and is the last step of w: no poll and no tell
\* follows, and the messages w had attached before stay where the main loop
\* takes them.
FatalShortCircuit ==
    [][\A w \in Modules :
          /\ (worker'[w].hist # worker[w].hist /\ Last(worker'[w].hist) = "fatal")
                => /\ worker'[w].pc = "terminated"
                   /\ worker'[w].cause = "fatal"
                   /\ worker'[w].polls = worker[w].polls + 1
                   /\ worker'[w].err_count = worker[w].err_count
                   /\ worker'[w].sent = worker[w].sent
                   /\ Cardinality(Attached(w)) = worker[w].sent
                   /\ \A v \in Modules \ {w} : worker'[v] = worker[v]
                   /\ UNCHANGED <<queue, enq, calls, strong, threlm, freedBy,
                                  homeVars, winVars, histVars>>
          /\ worker[w].cause = "fatal"
                => /\ worker'[w] = worker[w]
                   /\ Attached(w)' = Attached(w)]_vars

\* a worker has stopped on a fatal error with two strikes on its counter,
\* and the message it had passed to tell before has been applied
FatalShortCircuitWitness ==
    \E w \in enabled :
        /\ worker[w].cause = "fatal"
        /\ worker[w].err_count = ErrLimit - 1
        /\ worker[w].sent = 1
        /\ \E i \in DOMAIN applied : applied[i].from = w

\* ---------------------------------------------------------------- C12
\* C12: the step in which tell returns the Dead error to worker w is one poll
\* and one tell call, after which w has returned from its thread function:
\* nothing is attached for it, no thread panics, and w takes no further
\* step, so it neither retries the tell nor polls again.
DeadExit ==
    [][\A w \in Modules :
          /\ (worker[w].cause # "dead" /\ worker'[w].cause = "dead")
                => /\ worker[w].pc = "poll"
                   /\ worker'[w].pc = "terminated"
                   /\ worker'[w].polls = worker[w].polls + 1
                   /\ worker'[w].sent = worker[w].sent + 1
                   /\ calls' = calls + 1
                   /\ Attached(w)' = Attached(w)
                   /\ Cardinality(Attached(w)) = worker[w].sent
                   /\ hpc' = hpc /\ hpc # "panicked"
          /\ worker[w].cause = "dead"
                => /\ worker'[w] = worker[w]
                   /\ Attached(w)' = Attached(w)]_vars

\* main has returned and dropped the Threlm; the worker, whose first message
\* had been applied, has got the Dead error for its second and has stopped
DeadExitWitness ==
    \E w \in enabled :
        /\ hpc = "exited"
        /\ worker[w].pc = "terminated"
        /\ worker[w].cause = "dead"
        /\ worker[w].sent = 2
        /\ \E i \in DOMAIN applied : applied[i].from = w /\ applied[i].n = 1

\* ---------------------------------------------------------------- C13
\* C13: a worker whose poll_factory fails goes from its start to its end in
\* one step that changes nothing but that worker: it has never polled and
\* never called tell, no message of it exists anywhere, it takes no further
\* step, and the other workers, the queue and the main thread are as before.
FactoryFailure ==
    [][\A w \in Modules :
          /\ (worker[w].pc = "factory" /\ worker'[w].pc # "poll"
                 /\ worker'[w] # worker[w])
                => /\ worker'[w] = [worker[w] EXCEPT
                                       !.pc = "terminated", !.cause = "factory",
                                       !.log = <<ErrorEntry("factory")>>]
                   /\ worker[w].polls = 0
                   /\ worker[w].sent = 0
                   /\ \A v \in Modules \ {w} : worker'[v] = worker[v]
                   /\ UNCHANGED <<queue, enq, calls, strong, threlm, freedBy,
                                  homeVars, winVars, histVars>>
          /\ worker[w].cause = "factory"
                => /\ worker'[w] = worker[w]
                   /\ worker[w].pc = "terminated"
                   /\ worker[w].hist = <<>>
                   /\ Attached(w)' = {}]_vars

\* the factory of one module has failed, and the main loop has applied a
\* message of the other module
FactoryFailureWitness ==
    \E w, v \in enabled :
        /\ w # v
        /\ worker[w].cause = "factory"
        /\ \E i \in DOMAIN applied : applied[i].from = v
        /\ hpc = "loop"

\* ---------------------------------------------------------------- C14
\* the idle sources of w's messages, in their order in the queue
Pending(w) == SelectSeq(queue, LAMBDA m : m.from = w)

\* a step of the thread of module a
StepOf(a) == worker[a].pc # "unspawned" /\ worker'[a] # worker[a]

\* the step of a is part of a tell: its upgrade() or its idle_add
InsideTell(a) == worker[a].pc = "enqueue" \/ worker'[a].sent # worker[a].sent

\* no step of a changes anything b can see
IsolatedSteps ==
    \A a, b \in Modules :
        (a # b /\ StepOf(a))
            => /\ worker'[b] = worker[b]
               /\ Pending(b)' = Pending(b)
               /\ Attached(b)' = Attached(b)
               /\ UNCHANGED <<homeVars, winVars, histVars>>
               /\ ~InsideTell(a) =>
                      UNCHANGED <<queue, enq, calls, strong, threlm, freedBy>>

\* a worker whose neighbour has terminated can take its next step
AliveBesideTerminated ==
    \A a, b \in enabled :
        (a # b /\ worker[a].pc = "terminated")
            => /\ CanPoll(b) => \A k \in KindsOf(b) : ENABLED PollMsg(b, k)
               /\ worker[b].pc = "enqueue" => ENABLED TellEnqueue(b)

\* C14: a step of worker A changes neither worker B's record (counter,
\* position, cause) nor B's queued or delivered messages nor the main thread,
\* and a poll result of A that is not a message changes nothing but A; and
\* when A has terminated, B still polls, and a tell of B still attaches.
WorkerIsolation == []AliveBesideTerminated /\ [][IsolatedSteps]_vars

\* x11_backlight has terminated on its third non-fatal error while alsa_volume
\* is inside tell, the main loop running
WorkerIsolationWitness ==
    /\ worker["x11_backlight"].cause = "strikes"
    /\ worker["alsa_volume"].pc = "enqueue"
    /\ hpc = "loop"

\* ---------------------------------------------------------------- C15
\* a terminated worker has no step left
NoStepLeft ==
    \A w \in Modules : worker[w].pc = "terminated" => ~ENABLED WorkerStep(w)

\* no step changes a terminated worker or attaches a message in its name
StaysTerminated ==
    \A w \in Modules :
        worker[w].pc = "terminated"
            => /\ worker'[w] = worker[w]
               /\ Attached(w)' = Attached(w)
               /\ \A i \in DOMAIN queue' :
                      queue'[i].from = w => queue'[i] \in Range(queue)

\* C15: a worker that has terminated, for whatever cause, stays as it is: it
\* has no step left (no poll, no tell), its counter, its poll and tell counts
\* never change, no message of it is attached any more, and nothing spawns it
\* again.
TerminatedAbsorbing == []NoStepLeft /\ [][StaysTerminated]_vars

\* a worker has terminated on its third error with a poll of its bound left,
\* and the main thread is running an update
TerminatedAbsorbingWitness ==
    \E w \in enabled :
        /\ worker[w].pc = "terminated"
        /\ worker[w].cause = "strikes"
        /\ worker[w].polls < pollBound[w]
        /\ hpc = "update"

\* ---------------------------------------------------------------- C16
\* the last three results of the poll closure were non-fatal errors
ThreeInARow(h) ==
    /\ Len(h) >= ErrLimit
    /\ SubSeq(h, Len(h) - ErrLimit + 1, Len(h)) = ErrRun(ErrLimit)

\* C16 as claimed: a polling worker terminates only in a step in which its
\* poll closure returns a fatal error, or returns the third of three
\* consecutive non-fatal errors, or returns a message for which tell gives
\* Dead; and the step that destroys the Model terminates no worker.
TerminationCauses ==
    [][\A w \in Modules :
          /\ (worker[w].pc \in {"poll", "enqueue"}
                 /\ worker'[w].pc = "terminated")
                => \/ Last(worker'[w].hist) = "fatal"
                   \/ ThreeInARow(worker'[w].hist)
                   \/ /\ Last(worker'[w].hist) \in ShowKinds
                      /\ worker'[w].cause = "dead"
                      /\ strong = 0
          /\ (strong > 0 /\ strong' = 0)
                => (worker'[w].pc = "terminated" => worker[w].pc = "terminated")]_vars

\* ---------------------------------------------------------------- C17
\* the messages the poll closure of w has returned, in order
PolledMsgs(w) == SelectSeq(worker[w].hist, LAMBDA r : r \in ShowKinds)

\* the messages w has passed to a tell that did not return Dead
Told(w) ==
    Attached(w) \cup (IF worker[w].pc = "enqueue" THEN {worker[w].msg} ELSE {})

\* C17: worker w has called tell once for each message its poll closure
\* returned and for nothing else: its n-th tell carried the n-th returned
\* message, the tells were made in that order, none twice (only a tell that
\* returned Dead left nothing behind), and update runs with nothing of w but
\* those messages, never with an error or for an Ok(None).
FaithfulForwarding ==
    \A w \in Modules :
        /\ worker[w].sent = Len(PolledMsgs(w))
        /\ \A m \in Told(w) :
              /\ m.n \in 1..worker[w].sent
              /\ m.kind = PolledMsgs(w)[m.n]
        /\ \A n \in 1..worker[w].sent :
              Cardinality({m \in Told(w) : m.n = n})
                 = IF n = worker[w].sent /\ worker[w].cause = "dead" THEN 0 ELSE 1
        /\ \A m1, m2 \in Told(w) : m1.n < m2.n => m1.call < m2.call
        /\ \A i, j \in DOMAIN Pending(w) :
              i < j => Pending(w)[i].n < Pending(w)[j].n

\* the poll closure has returned a message, Ok(None), an error and another
\* message, and update has run with the two messages and nothing else
FaithfulForwardingWitness ==
    \E w \in enabled :
        /\ worker[w].hist = <<"ShowBool", "none", "nonfatal", "ShowPercent">>
        /\ Len(applied) = 2
        /\ applied[1].from = w /\ applied[1].kind = "ShowBool"
        /\ applied[2].from = w /\ applied[2].kind = "ShowPercent"

\* ---------------------------------------------------------------- C18
\* the Threlm has been constructed and dropped
OwnerDropped == hpc # "start" /\ ~threlm

\* a tell called in this step returned the Dead error: on a worker thread
\* subscribe returns, on the main thread the unwrap() panics
ReturnsDead ==
    \/ \E w \in Modules : worker[w].cause # "dead" /\ worker'[w].cause = "dead"
    \/ hpc # "panicked" /\ hpc' = "panicked"

\* C18 as claimed: once the owner has dropped the Threlm no strong reference
\* to the Model is left, and every tell called from then on, on any thread,
\* returns Dead and attaches nothing.
HandlesDieWithOwner ==
    /\ [](OwnerDropped => strong = 0)
    /\ [][(OwnerDropped /\ calls' # calls)
             => ReturnsDead /\ UNCHANGED <<queue, enq, strong>>]_vars

\* ---------------------------------------------------------------- C19
\* the last strong reference has been dropped: the Model is destroyed
ModelGone == freedBy # "-"

HarmlessDiscard ==
    /\ [](\A m \in discarded :
             m \notin Range(queue) \cup InFlight \cup Range(applied))
    /\ [][discarded' # discarded
             => /\ Head(queue).ret > 0
                /\ strong = 0
                /\ discarded' = discarded \cup {Head(queue)}
                /\ queue' = Tail(queue)
                /\ UNCHANGED <<strong, threlm, freedBy, hpc, cur, via, quitFlag,
                               worker, winVars, applied, borrows, enq, calls>>]_vars

\* the worker's tell returned Ok and the worker went on, but the Model was
\* destroyed before the loop ran the callback: update never ran
HarmlessDiscardWitness ==
    \E w \in enabled :
        /\ \E m \in discarded : m.from = w /\ m.ret > 0
        /\ worker[w].pc = "poll"
        /\ worker[w].sent = 1
        /\ applied = <<>>

\* ---------------------------------------------------------------- C21
\* C21: when Threlm::new is called on a thread other than the one gtk::init
\* ran on, the call panics and nothing has been built: no Arc (the Model is
\* not wrapped, no Threlm exists), no connect (no worker thread is spawned,
\* no closure can call tell), and nothing ever runs.
ConstructionPrecondition ==
    /\ [](caller # Home
            => /\ hpc \in {"start", "panicked"}
               /\ strong = 0 /\ ~threlm /\ freedBy = "-"
               /\ \A w \in Modules : worker[w] = InitWorker
               /\ queue = <<>> /\ calls = 0 /\ enq = 0
               /\ applied = <<>> /\ borrows = <<>>)
    /\ [][(caller # Home /\ hpc = "start") => hpc' = "panicked"]_vars

\* Threlm::new has been called on another thread and has panicked
ConstructionPreconditionWitness ==
    /\ caller # Home
    /\ hpc = "panicked"
    /\ strong = 0

\* ---------------------------------------------------------------- C22
\* a Hide has been passed to tell and update has not yet returned from it
HidePending ==
    \E m \in Range(queue) \cup InFlight : m.kind = "Hide"

\* the run has used up the timer expiries it is bounded to, and no Hide is
\* on its way
FiresUsedUp == fires >= MaxFires /\ ~HidePending

\* C22: when a Show message has made the window visible and the loop keeps
\* running (no Quit, the Model alive), a Hide is eventually applied, whether
\* or not further Show messages arrive in between; and the update that
\* applies a Hide leaves the window hidden and Window.timeout None.
AutoHide ==
    /\ win.visible ~> \/ ~win.visible /\ win.timeout = 0
                      \/ quitFlag
                      \/ strong = 0
                      \/ FiresUsedUp
    /\ [][(applied' # applied /\ cur.kind = "Hide")
             => ~win'.visible /\ win'.timeout = 0]_vars

\* a Show has been applied, its timeout has expired, and the Hide has been
\* applied: the window is hidden again with no timeout stored
AutoHideWitness ==
    /\ Len(applied) = 2
    /\ applied[1].kind \in ShowKinds
    /\ applied[2].kind = "Hide"
    /\ applied[2].n = 1
    /\ ~win.visible
    /\ win.timeout = 0
    /\ ~quitFlag

\* ---------------------------------------------------------------- C23
\* the places of applied that hold a message given to Threlm::update
SyncPlaces == {i \in DOMAIN applied : applied[i].from = "sync"}

\* the call of Threlm::update enters Model::update at once and attaches
\* nothing; until it returns nothing else is applied, the queue is not
\* dispatched, and its return is the end of that update
SyncSteps ==
    /\ syncs' # syncs
          => /\ hpc' = "update" /\ via' = "sync"
             /\ UNCHANGED <<queue, enq, calls, strong, batch, applied>>
    /\ via = "sync"
          => /\ hpc = "update"
             /\ applied' # applied
                   => /\ applied' = Append(applied, cur)
                      /\ cur.from = "sync"
                      /\ hpc' = "constructed"
             /\ \A i \in DOMAIN queue : i <= Len(queue') /\ queue'[i] = queue[i]

\* C23: Threlm::update runs Model::update with its message on the caller's
\* thread before it returns and without an idle source, so the message is
\* applied before every message that tell had attached by then.
SynchronousUpdate ==
    /\ [](\A i \in SyncPlaces : \A j \in ToldPlaces :
             applied[j].ret <= applied[i].inv => i < j)
    /\ [][SyncSteps]_vars

\* a message had been attached by tell when Threlm::update was called; the
\* message of Threlm::update has been applied first, the attached one after
SynchronousUpdateWitness ==
    \E i \in SyncPlaces : \E j \in ToldPlaces :
        /\ applied[j].ret <= applied[i].inv
        /\ i < j

\* ---------------------------------------------------------------- C24
\* the errors the poll closure of w has returned, in order
PolledErrs(w) ==
    SelectSeq(worker[w].hist, LAMBDA r : r \in {"nonfatal", "fatal"})

\* the log entries of w that report a poll error
ErrEntries(w) ==
    SelectSeq(worker[w].log,
              LAMBDA e : e.text \in {"continue", "third", "fatal"})

\* the last k entries of a log
LastEntries(l, k) == SubSeq(l, Len(l) - k + 1, Len(l))

\* C24: the log of a worker has one entry for each error its poll closure
\* returned, in the same order: a fatal error has the entry that announces
\* the termination, a non-fatal one the entry that announces the
\* continuation or, as third, the termination. A worker terminated by
\* escalation has three error entries as its last log entries, the third
\* being the escalation; one terminated by a fatal error has that error's
\* entry as its last.
FailureLogging ==
    \A w \in Modules :
        LET errs == PolledErrs(w)
            ents == ErrEntries(w)
        IN  /\ Len(ents) = Len(errs)
            /\ \A i \in DOMAIN errs :
                  /\ errs[i] = "fatal" <=> ents[i].text = "fatal"
                  /\ ents[i].level = "error"
            /\ worker[w].cause = "strikes"
                  => /\ Len(worker[w].log) >= ErrLimit
                     /\ LastEntries(worker[w].log, ErrLimit)
                          = <<ErrorEntry("continue"), ErrorEntry("continue"),
                              ErrorEntry("third")>>
            /\ worker[w].cause = "fatal"
                  => /\ Last(worker[w].log) = ErrorEntry("fatal")
                     /\ Last(worker[w].hist) = "fatal"
            /\ \A i \in DOMAIN ents :
                  ents[i].text = "third" => i = Len(ents) /\ worker[w].cause = "strikes"

\* a worker has logged two errors, delivered a message, and then terminated
\* on a fatal error: three entries for three errors
FailureLoggingWitness ==
    \E w \in enabled :
        /\ worker[w].hist = <<"nonfatal", "nonfatal", "ShowBool", "fatal">>
        /\ Len(worker[w].log) = 3

\* ---------------------------------------------------------------- C25
\* the entries of w's log that say the widget has been dropped
DroppedEntries(w) ==
    {i \in DOMAIN worker[w].log : worker[w].log[i].text = "dropped"}

\* C25 as claimed: a worker that terminates on the Dead error of tell logs
\* nothing of level error for it: its log holds its poll errors only.
QuietShutdown ==
    \A w \in Modules :
        worker[w].cause = "dead"
            => \A i \in DOMAIN worker[w].log :
                  worker[w].log[i].level = "error"
                      => worker[w].log[i].text \in {"continue", "third", "fatal"}

\* C25, amended: a worker that terminates on the Dead error of tell logs
\* exactly one entry for it, of level error, as its last entry, which says
\* that the widget has been dropped and is none of the poll-error entries;
\* and no worker that terminated otherwise, or is alive, has such an entry.
DeadIsLogged ==
    \A w \in Modules :
        /\ worker[w].cause = "dead"
              => /\ DroppedEntries(w) = {Len(worker[w].log)}
                 /\ Last(worker[w].log) = ErrorEntry("dropped")
                 /\ Len(worker[w].log) = Len(PolledErrs(w)) + 1
        /\ worker[w].cause # "dead" => DroppedEntries(w) = {}

\* a worker that met one poll error and later the Dead error of tell: two
\* entries, the second for the termination
DeadIsLoggedWitness ==
    \E w \in enabled :
        /\ worker[w].cause = "dead"
        /\ worker[w].log = <<ErrorEntry("continue"), ErrorEntry("dropped")>>

\* ---------------------------------------------------------------- C26
\* the update in progress is a Show that is about to call hide_timeout with
\* an id stored in Window.timeout
RemovesStored ==
    /\ hpc = "update"
    /\ applied' # applied
    /\ cur.kind \in ShowKinds
    /\ win.timeout # 0

\* every source_remove of hide_timeout is given the id of an armed source
RemovesArmed == [][RemovesStored => win.timeout \in armed]_vars

\* C26 as claimed: whenever Window.timeout holds an id, the timeout source of
\* that id is armed, so that the source_remove of hide_timeout is always
\* given a source that has neither fired nor been removed.
LiveTimerHandle ==
    /\ [](win.timeout # 0 => win.timeout \in armed)
    /\ RemovesArmed

\* ---------------------------------------------------------------- C27
\* C27 as claimed: the first Hide applied after a Show (Window.timeout still
\* holds the id that Show's hide_timeout stored) comes from the timeout with
\* that id, not from one that an earlier Show had armed.
ShowRestartsDelay ==
    [][(hpc = "update" /\ applied' # applied /\ cur.kind = "Hide"
          /\ win.timeout # 0)
         => cur.n = win.timeout]_vars

\* ---------------------------------------------------------------- C28
\* C28 as claimed: at most one timeout source is armed, and an armed source
\* is the one whose id Window.timeout holds.
SingleHideTimer ==
    /\ Cardinality(armed) <= 1
    /\ armed # {} => win.timeout \in armed

\* ---------------------------------------------------------------- C29
\* C29 as claimed: the step that drops the last strong reference, and so
\* runs the Model's destructor, is the owner's drop of the Threlm on the main
\* thread, never a step of a worker thread.
DestroyedAtHome ==
    [][(strong > 0 /\ strong' = 0)
         => /\ freedBy' = Home
            /\ threlm /\ ~threlm'
            /\ \A w \in Modules : worker'[w] = worker[w]]_vars

\* ---------------------------------------------------------------- C30
\* the counter of a worker at the head of its loop is below the limit, the
\* counter never exceeds the limit, and a worker whose counter is at the
\* limit has terminated by escalation
CounterInBounds ==
    \A w \in Modules :
        /\ worker[w].err_count \in 0..ErrLimit
        /\ worker[w].pc \in {"factory", "poll", "enqueue"}
              => worker[w].err_count \in 0..(ErrLimit - 1)
        /\ worker[w].err_count = ErrLimit
              => worker[w].pc = "terminated" /\ worker[w].cause = "strikes"

\* the counter moves by the code's arms only: to the limit in the step that
\* terminates the worker, and not at all on a fatal error
CounterSteps ==
    \A w \in Modules :
        /\ (worker[w].err_count # ErrLimit /\ worker'[w].err_count = ErrLimit)
              => /\ worker[w].pc = "poll"
                 /\ worker[w].err_count = ErrLimit - 1
                 /\ worker'[w].pc = "terminated"
                 /\ Last(worker'[w].hist) = "nonfatal"
        /\ (worker'[w].hist # worker[w].hist /\ Last(worker'[w].hist) = "fatal")
              => worker'[w].err_count = worker[w].err_count

\* C30: a worker about to poll has err_count 0, 1 or 2; err_count becomes 3
\* only in the step of the non-fatal error that terminates the worker; and a
\* fatal error leaves err_count as it was.
CounterBounds == []CounterInBounds /\ [][CounterSteps]_vars

\* after a message had reset it, the counter has gone up to the limit and
\* the worker has terminated
CounterBoundsWitness ==
    \E w \in enabled :
        /\ worker[w].hist = <<"ShowBool", "nonfatal", "nonfatal", "nonfatal">>
        /\ worker[w].err_count = ErrLimit
        /\ worker[w].pc = "terminated"

\* ---------------------------------------------------------------- C31
\* a step in which the main thread calls tell: the closure of a timeout or
\* of the delete-event
HomeTellStep == calls' # calls /\ worker' = worker

\* C31: while gtk::main runs the Threlm is alive and holds a strong
\* reference, so every tell of a main-thread callback (the Hide of a timeout,
\* the Quit of the delete-event) finds the Model, attaches its closure and
\* returns Ok: the unwrap() never panics.
NoHomeTellPanic ==
    /\ [](/\ hpc # "panicked"
          /\ hpc \in {"loop", "update"} => threlm /\ strong > 0)
    /\ [][HomeTellStep
             => /\ hpc = "loop" /\ hpc' = "loop"
                /\ TellAlive
                /\ enq' = enq + 1
                /\ Len(queue') = Len(queue) + 1
                /\ Last(queue').kind \in {"Hide", "Quit"}
                /\ Last(queue').ret = enq + 1]_vars

\* the Hide of a timeout and the Quit of a delete-event have both been
\* passed to tell, update has run with both, and gtk::main has returned
NoHomeTellPanicWitness ==
    /\ \E i \in DOMAIN applied : applied[i].from = "timer"
    /\ \E i \in DOMAIN applied : applied[i].from = "delete"
    /\ hpc = "exited"

\* ---------------------------------------------------------------- C32
\* the thread of module w has been spawned
Spawned(w) == worker[w].pc # "unspawned"

\* a thread starts only in the step of Threlm::new, only for an enabled
\* module, and no thread that has run is started again
SpawnSteps ==
    \A w \in Modules :
        /\ (~Spawned(w) /\ Spawned(w)')
              => /\ hpc = "start" /\ hpc' = "constructed"
                 /\ w \in enabled
                 /\ worker'[w] = [InitWorker EXCEPT !.pc = "factory"]
        /\ Spawned(w) => Spawned(w)'
        /\ (worker'[w].pc = "factory" /\ worker[w].pc # "factory")
              => ~Spawned(w)

\* C32: Threlm::new calls connect once, inside new: until new has returned
\* no thread exists and no update has run or been asked for; from then on
\* the threads that exist are exactly one per enabled module, and no step
\* other than Threlm::new ever starts a thread.
SingleRegistration ==
    /\ [](hpc = "start"
            => /\ \A w \in Modules : worker[w] = InitWorker
               /\ applied = <<>> /\ cur = NoMsg /\ queue = <<>>
               /\ syncs = 0 /\ calls = 0)
    /\ [](hpc # "start" => \A w \in Modules : Spawned(w) <=> w \in enabled)
    /\ [][SpawnSteps]_vars

\* the thread of the enabled module has run to its end and the owner's and
\* the worker's messages have been applied; the module that is not compiled
\* in has no thread
SingleRegistrationWitness ==
    /\ \E w \in enabled : worker[w].pc = "terminated" /\ worker[w].sent > 0
    /\ \E w \in Modules \ enabled : ~Spawned(w)
    /\ \E i \in DOMAIN applied : applied[i].from = "sync"
    /\ \E i \in DOMAIN applied : applied[i].from \in Modules

\* ---------------------------------------------------------------- C33
\* the Show messages applied so far, in order
Shows == SelectSeq(applied, LAMBDA m : m.kind \in ShowKinds)

\* what the last applied Show has left of the container's children: nothing
\* before the first Show (Window::new hides both), the scale alone after a
\* ShowPercent, and after a ShowBool the label alone or, without show_label,
\* nothing
ContentOfLastShow ==
    IF Shows = <<>> THEN ~win.scale /\ ~win.label
    ELSE IF Last(Shows).kind = "ShowPercent" THEN win.scale /\ ~win.label
    ELSE ~win.scale /\ (win.label <=> show_label)

\* C33: the scale and the label are never visible together; the content is
\* that of the last applied Show, whatever was applied before and whatever
\* Hide came after; and the update of a Show leaves the window visible.
ExclusiveContent ==
    /\ [](~(win.scale /\ win.label) /\ ContentOfLastShow)
    /\ [][(applied' # applied /\ cur.kind \in ShowKinds) => win'.visible]_vars

\* a ShowBool has shown the label, and the ShowPercent applied after it has
\* hidden the label and shown the scale
ExclusiveContentWitness ==
    /\ show_label
    /\ Len(Shows) = 2
    /\ Shows[1].kind = "ShowBool"
    /\ Shows[2].kind = "ShowPercent"
    /\ win.scale /\ ~win.label /\ win.visible

\* ---------------------------------------------------------------- C34
\* the lookup as claimed: `Backlight` when it exists, else `BACKLIGHT`, and
\* the error when neither exists
ClaimedLookup ==
    IF "Backlight" \in atoms THEN [err |-> FALSE, atom |-> AtomOf["Backlight"]]
    ELSE IF "BACKLIGHT" \in atoms THEN [err |-> FALSE, atom |-> AtomOf["BACKLIGHT"]]
    ELSE [err |-> TRUE, atom |-> 0]

\* the factory of x11_backlight has returned the "no property" error
NoPropertyLogged ==
    \E i \in DOMAIN worker["x11_backlight"].log :
        worker["x11_backlight"].log[i] = ErrorEntry("no property")

\* Backlight::new never goes on with the atom 0
NeverNullAtom == backlight # 0

\* the atom Backlight::new goes on with is that of `Backlight` when the
\* server has it, else that of `BACKLIGHT`
PrefersBacklight ==
    backlight # NoAtom => ~ClaimedLookup.err /\ backlight = ClaimedLookup.atom

\* the "no property" error is returned only when the server has neither
NoPropertyOnlyIfNeither == NoPropertyLogged => atoms = {}

\* when the server has neither, the factory fails: the thread never polls
NeitherFails ==
    atoms = {}
        => /\ backlight = NoAtom
           /\ worker["x11_backlight"].pc \in {"unspawned", "factory", "terminated"}
           /\ worker["x11_backlight"].pc = "terminated"
                 => worker["x11_backlight"].cause = "factory"

\* C34 as claimed: the lookup of Backlight::new gives the atom of
\* `Backlight` when the server has it, the atom of `BACKLIGHT` only when it
\* has not, and the "no property" error exactly when it has neither; and
\* Backlight::new never goes on with the atom 0.
BacklightLookup ==
    /\ NeverNullAtom
    /\ PrefersBacklight
    /\ NoPropertyOnlyIfNeither
    /\ NeitherFails

\* ---------------------------------------------------------------- C35
\* the messages the closure has returned for card c, in order
EmittedFor(c) ==
    SelectSeq(emitted, LAMBDA r : r.card = c /\ r.kind # "Err")

\* of two messages in a row for one card, not both are Muted, and not both
\* are ShowPercent with the same volume
NoRepeats ==
    \A c \in Cards :
        LET e == EmittedFor(c)
        IN  \A i \in 1..(Len(e) - 1) :
                /\ ~(e[i].kind = "ShowBool" /\ e[i + 1].kind = "ShowBool")
                /\ (e[i].kind = "ShowPercent" /\ e[i + 1].kind = "ShowPercent")
                      => e[i].volume # e[i + 1].volume

\* the step reads an event of card c
ReadsEvent(c) == mixer'[c].pending < mixer[c].pending

\* the step returns this message for card c
Emits(c, kind, volume) ==
    emitted' = Append(emitted, [card |-> c, kind |-> kind, volume |-> volume])

\* the first event read of a card returns the card's state, and so does an
\* event read of a card that was muted and is not any more
EmitsOnFirstAndUnmute ==
    \A c \in Cards :
        /\ (ReadsEvent(c) /\ cards[c] = Unset)
              => IF mixer[c].muted THEN Emits(c, "ShowBool", Muted)
                 ELSE Emits(c, "ShowPercent", mixer[c].volume)
        /\ (ReadsEvent(c) /\ cards[c] = Muted /\ ~mixer[c].muted)
              => Emits(c, "ShowPercent", mixer[c].volume)

\* C35: per sound card the closure returns a message only on a change: no
\* two Muted in a row, no two ShowPercent of the same volume in a row; and it
\* returns one on the first event of a card and on an unmute.
VolumeDedup == []NoRepeats /\ [][EmitsOnFirstAndUnmute]_vars

\* a card has given its volume, then produced an event without a change,
\* for which nothing was returned, and then been muted, which was returned
VolumeDedupWitness ==
    \E c \in Cards :
        /\ Len(emitted) = 2
        /\ emitted[1].card = c /\ emitted[1].kind = "ShowPercent"
        /\ emitted[2].card = c /\ emitted[2].kind = "ShowBool"
        /\ events = 3
        /\ \A d \in Cards : mixer[d].pending = 0 /\ (d # c => cards[d] = Unset)

====
